---- MODULE Spec2Model ----
(***************************************************************************)
(* A model of the Rummikub game of paradin/rummikub: the rules engine      *)
(* (utils/gameLogic: createDeck, isValidSet, calculateSetPoints,           *)
(* aiPlayTurn) and the turn orchestration of App.tsx (the React state, its *)
(* handlers, its two effects and the delayed AI-turn callback).            *)
(***************************************************************************)
EXTENDS Integers, Sequences, FiniteSets, TLC

(***************************************************************************)
(* Tiles (types.ts).  A tile is a record; its id models the template       *)
(* string `${color}-${num}-${set}` by the tuple of its three parts, and    *)
(* 'joker-1' / 'joker-2' by <<"joker", k>>.                                *)
(***************************************************************************)
Red == "Red"
Blue == "Blue"
Orange == "Orange"
Black == "Black"
Joker == "Joker"

\* the colour list of createDeck and of the run pass of aiPlayTurn, in order
colors == <<Red, Blue, Orange, Black>>

MaxNumber == 13
NumCopies == 2
NumJokers == 2
MeldThreshold == 30
INITIAL_HAND_SIZE == 14

Tile(c, n, s) == [id |-> <<c, n, s>>, number |-> n, color |-> c, isJoker |-> FALSE]
JokerTile(k) == [id |-> <<"joker", k>>, number |-> 0, color |-> Joker, isJoker |-> TRUE]

Range(s) == {s[i] : i \in 1..Len(s)}
Min2(a, b) == IF a <= b THEN a ELSE b
Max2(a, b) == IF a >= b THEN a ELSE b

\* F applied to the value of x, x being evaluated once
Force(x, F(_)) == CHOOSE r \in {F(v) : v \in {x}} : TRUE

\* [...a].filter(p) for the predicates the code uses
NonJokers(set) == SelectSeq(set, LAMBDA t : ~t.isJoker)
Jokers(set) == SelectSeq(set, LAMBDA t : t.isJoker)

\* Array.prototype.sort((a, b) => a.number - b.number): a stable sort by number,
\* here an insertion sort that puts t after the tiles whose number is not larger
InsertByNumber(sorted, t) ==
    LET p == Cardinality({i \in 1..Len(sorted) : sorted[i].number <= t.number})
    IN  SubSeq(sorted, 1, p) \o <<t>> \o SubSeq(sorted, p + 1, Len(sorted))

RECURSIVE SortFrom(_, _, _)
SortFrom(sorted, s, k) ==
    IF k > Len(s) THEN sorted
    ELSE Force(InsertByNumber(sorted, s[k]), LAMBDA next : SortFrom(next, s, k + 1))

SortByNumber(s) == Force(s, LAMBDA a : SortFrom(<<>>, a, 1))

(***************************************************************************)
(* sortHand: jokers last, then by number and colour or by colour and       *)
(* number; String.prototype.localeCompare orders the colour names          *)
(* alphabetically.  Array.prototype.sort is stable.                        *)
(***************************************************************************)
ColorRank(c) == CHOOSE i \in 1..4 : <<Black, Blue, Orange, Red>>[i] = c

\* the sign of the comparator of sortHand
sortHandCompare(a, b, type) ==
    IF a.isJoker /\ ~b.isJoker THEN 1
    ELSE IF ~a.isJoker /\ b.isJoker THEN -1
    ELSE IF a.isJoker /\ b.isJoker THEN 0
    ELSE IF type = "number"
         THEN IF a.number # b.number THEN a.number - b.number
              ELSE ColorRank(a.color) - ColorRank(b.color)
         ELSE IF a.color # b.color THEN ColorRank(a.color) - ColorRank(b.color)
              ELSE a.number - b.number

InsertByCompareMutUnstable(sorted, t, type) ==
    LET p == Cardinality({i \in 1..Len(sorted) : sortHandCompare(sorted[i], t, type) < 0})
    IN  SubSeq(sorted, 1, p) \o <<t>> \o SubSeq(sorted, p + 1, Len(sorted))

InsertByCompare(sorted, t, type) ==
    LET p == Cardinality({i \in 1..Len(sorted) : sortHandCompare(sorted[i], t, type) <= 0})
    IN  SubSeq(sorted, 1, p) \o <<t>> \o SubSeq(sorted, p + 1, Len(sorted))

RECURSIVE SortHandFrom(_, _, _, _)
SortHandFrom(sorted, s, k, type) ==
    IF k > Len(s) THEN sorted
    ELSE Force(InsertByCompare(sorted, s[k], type),
               LAMBDA next : SortHandFrom(next, s, k + 1, type))

sortHand(hand, type) == Force(hand, LAMBDA a : SortHandFrom(<<>>, a, 1, type))

(***************************************************************************)
(* createDeck, before its final shuffle: for set, for color, for num, then *)
(* the two jokers.                                                         *)
(***************************************************************************)
DeckIndexTile(k) ==
    LET perSet == Len(colors) * MaxNumber
        s == (k - 1) \div perSet
        r == (k - 1) % perSet
        c == colors[(r \div MaxNumber) + 1]
        n == (r % MaxNumber) + 1
    IN  Tile(c, n, s)

createDeckOrdered ==
    [k \in 1..(NumCopies * Len(colors) * MaxNumber) |-> DeckIndexTile(k)]
        \o [k \in 1..NumJokers |-> JokerTile(k)]

(***************************************************************************)
(* isValidSet                                                              *)
(***************************************************************************)
isGroup(set, nonJokers) ==
    LET num == nonJokers[1].number
    IN  /\ Len(set) <= 4
        /\ \A i \in 1..Len(set) : ~set[i].isJoker => set[i].number = num
        /\ \A i, j \in 1..Len(set) :
              (i < j /\ ~set[i].isJoker /\ ~set[j].isJoker) => set[i].color # set[j].color

isRunMutNoDuplicateCheck(set, nonJokers, sortedNonJokers) ==
    LET color == nonJokers[1].color
        minNum == sortedNonJokers[1].number
        maxNum == sortedNonJokers[Len(sortedNonJokers)].number
        span == maxNum - minNum + 1
    IN  /\ Len(set) <= MaxNumber
        /\ \A i \in 1..Len(nonJokers) : nonJokers[i].color = color
        /\ span <= Len(set)
        /\ Max2(1, maxNum - Len(set) + 1) <= Min2(MaxNumber - Len(set) + 1, minNum)

\* sortedNonJokers is [...nonJokers].sort((a, b) => a.number - b.number)
isRun(set, nonJokers, sortedNonJokers) ==
    LET color == nonJokers[1].color
        minNum == sortedNonJokers[1].number
        maxNum == sortedNonJokers[Len(sortedNonJokers)].number
        span == maxNum - minNum + 1
    IN  /\ Len(set) <= MaxNumber
        /\ \A i \in 1..Len(nonJokers) : nonJokers[i].color = color
        /\ \A i \in 1..(Len(sortedNonJokers) - 1) :
              sortedNonJokers[i].number # sortedNonJokers[i + 1].number
        /\ span <= Len(set)
        /\ Max2(1, maxNum - Len(set) + 1) <= Min2(MaxNumber - Len(set) + 1, minNum)

isValidSet(set) ==
    IF Len(set) < 3 THEN FALSE
    ELSE Force(<<set, NonJokers(set)>>, LAMBDA a :
            IF Len(a[2]) = 0 THEN Len(a[1]) <= 4
            ELSE \/ isGroup(a[1], a[2])
                 \/ Force(SortByNumber(a[2]), LAMBDA sorted : isRun(a[1], a[2], sorted)))

(***************************************************************************)
(* calculateSetPoints                                                      *)
(***************************************************************************)
RECURSIVE InternalGaps(_, _)
InternalGaps(sorted, i) ==
    IF i >= Len(sorted) THEN 0
    ELSE (sorted[i + 1].number - sorted[i].number - 1) + InternalGaps(sorted, i + 1)

\* (set.length / 2) * (2 * start + set.length - 1): one of the two factors
\* set.length and (2 * start + set.length - 1) is even, so the floating-point
\* product is the exact integer half of their product
SeriesSum(start, size) == (size * (2 * start + size - 1)) \div 2

RunStartMutNoLeftPush(size, numNonJokers, sorted) == sorted[1].number

\* sorted is [...nonJokers].sort(...), size is set.length
RunStart(size, numNonJokers, sorted) ==
    LET internalGaps == InternalGaps(sorted, 1)
        jokersLeft == size - numNonJokers - internalGaps
        leftPush == Min2(jokersLeft, sorted[1].number - 1)
    IN  sorted[1].number - leftPush

calculateSetPointsMutJokersScoreZero(set) ==
    Force(<<set, NonJokers(set)>>, LAMBDA a :
        IF Len(a[2]) = 0 THEN 0
        ELSE LET firstNum == a[2][1].number
                 isGroupScore == \A i \in 1..Len(a[2]) : a[2][i].number = firstNum
             IN  IF isGroupScore THEN firstNum * Len(a[2])
                 ELSE Force(SortByNumber(a[2]), LAMBDA sorted :
                          SeriesSum(RunStart(Len(a[1]), Len(a[2]), sorted), Len(a[1]))))

calculateSetPoints(set) ==
    Force(<<set, NonJokers(set)>>, LAMBDA a :
        IF Len(a[2]) = 0 THEN 0
        ELSE LET firstNum == a[2][1].number
                 isGroupScore == \A i \in 1..Len(a[2]) : a[2][i].number = firstNum
             IN  IF isGroupScore THEN firstNum * Len(a[1])
                 ELSE Force(SortByNumber(a[2]), LAMBDA sorted :
                          SeriesSum(RunStart(Len(a[1]), Len(a[2]), sorted), Len(a[1]))))

(***************************************************************************)
(* aiPlayTurn.  Its working state (currentHand, currentBoard, madeMove,    *)
(* currentTurnPoints and the mutated parameter hasMeld) is the record      *)
(* [hand, board, madeMove, points, hasMeld]; `ok` carries tryPlaySet's     *)
(* return value.  Arrays are mutable objects: callerHand and callerBoard   *)
(* are the contents of the arrays the caller passed, aliasHand and         *)
(* aliasBoard tell whether currentHand and currentBoard refer to those     *)
(* very arrays, so that push, splice and index assignment through them     *)
(* change the caller's arrays too.  filter and spread make new arrays.     *)
(* No statement changes a set array in place.                              *)
(***************************************************************************)
AiStartMutNoCopy(hand, board, hasMeldIn) ==
    [hand |-> hand, board |-> board, madeMove |-> FALSE, points |-> 0,
     hasMeld |-> hasMeldIn, ok |-> FALSE,
     callerHand |-> hand, callerBoard |-> board, aliasHand |-> TRUE, aliasBoard |-> TRUE]

\* let currentHand = [...hand]; let currentBoard = board.map(s => [...s]):
\* new arrays, which share nothing with the caller's
AiStart(hand, board, hasMeldIn) ==
    [hand |-> hand, board |-> board, madeMove |-> FALSE, points |-> 0,
     hasMeld |-> hasMeldIn, ok |-> FALSE,
     callerHand |-> hand, callerBoard |-> board, aliasHand |-> FALSE, aliasBoard |-> FALSE]

IdsOf(set) == {set[i].id : i \in 1..Len(set)}

tryPlaySetMutNoGate(st, set) ==
    LET total == st.points + calculateSetPoints(set)
    IN  [hand |-> SelectSeq(st.hand, LAMBDA t : t.id \notin IdsOf(set)),
         board |-> Append(st.board, set),
         madeMove |-> TRUE,
         points |-> total,
         hasMeld |-> (st.hasMeld \/ total >= MeldThreshold),
         ok |-> TRUE,
         callerHand |-> st.callerHand,
         callerBoard |-> IF st.aliasBoard THEN Append(st.callerBoard, set)
                         ELSE st.callerBoard,
         aliasHand |-> FALSE,
         aliasBoard |-> st.aliasBoard]

tryPlaySetMutKeepsTile(st, set) ==
    LET total == st.points + calculateSetPoints(set)
    IN  IF st.hasMeld \/ total >= MeldThreshold
        THEN [hand |-> SelectSeq(st.hand, LAMBDA t : t.id \notin IdsOf(Tail(set))),
              board |-> Append(st.board, set),
              madeMove |-> TRUE,
              points |-> total,
              hasMeld |-> (st.hasMeld \/ total >= MeldThreshold),
              ok |-> TRUE,
              callerHand |-> st.callerHand,
              callerBoard |-> IF st.aliasBoard THEN Append(st.callerBoard, set)
                              ELSE st.callerBoard,
              aliasHand |-> FALSE,
              aliasBoard |-> st.aliasBoard]
        ELSE [st EXCEPT !.ok = FALSE]

tryPlaySet(st, set) ==
    LET total == st.points + calculateSetPoints(set)
    IN  IF st.hasMeld \/ total >= MeldThreshold
        THEN [hand |-> SelectSeq(st.hand, LAMBDA t : t.id \notin IdsOf(set)),
              board |-> Append(st.board, set),
              madeMove |-> TRUE,
              points |-> total,
              hasMeld |-> (st.hasMeld \/ total >= MeldThreshold),
              ok |-> TRUE,
              callerHand |-> st.callerHand,
              callerBoard |-> IF st.aliasBoard THEN Append(st.callerBoard, set)
                              ELSE st.callerBoard,
              aliasHand |-> FALSE,
              aliasBoard |-> st.aliasBoard]
        ELSE [st EXCEPT !.ok = FALSE]

\* tiles.forEach(t => { if (!colors.has(t.color)) { ...push(t) } }): the tiles
\* that are the first of their colour, in order
UniqueByColor(tiles) ==
    SelectSeq(tiles, LAMBDA t :
        \A i \in 1..Len(tiles) :
            tiles[i].color = t.color =>
                \E j \in 1..i : tiles[j] = t)

\* one iteration of `for (const numStr in numMap)`; numMap was filled from
\* hand0, the hand as it was when the turn began
GroupStep(st, hand0, num) ==
    LET tiles == SelectSeq(hand0, LAMBDA t : ~t.isJoker /\ t.number = num)
        uniqueByColor == UniqueByColor(tiles)
        jokersInHand == Jokers(st.hand)
    IN  IF Len(uniqueByColor) >= 3
        THEN tryPlaySet(st, SubSeq(uniqueByColor, 1, 3))
        ELSE IF Len(uniqueByColor) = 2 /\ Len(jokersInHand) > 0
        THEN tryPlaySet(st, SubSeq(uniqueByColor, 1, 2) \o <<jokersInHand[1]>>)
        ELSE st

\* the keys of numMap are integer-like, so for...in visits them ascending
RECURSIVE GroupLoop(_, _, _)
GroupLoop(st, hand0, num) ==
    IF num > MaxNumber THEN st
    ELSE Force(GroupStep(st, hand0, num), LAMBDA next : GroupLoop(next, hand0, num + 1))

GroupPass(st) == Force(st, LAMBDA s : GroupLoop(s, s.hand, 1))

\* the inner `for j` loop: grow the run from colorTiles[i]
RECURSIVE GrowRun(_, _, _)
GrowRun(run, colorTiles, j) ==
    IF j > Len(colorTiles) THEN run
    ELSE IF colorTiles[j].number = run[Len(run)].number + 1
    THEN Force(Append(run, colorTiles[j]), LAMBDA next : GrowRun(next, colorTiles, j + 1))
    ELSE IF colorTiles[j].number > run[Len(run)].number + 1 THEN run
    ELSE GrowRun(run, colorTiles, j + 1)

\* the `for i` loop of one colour, left by `break` on the first success
RECURSIVE RunLoop(_, _, _)
RunLoop(st, colorTiles, i) ==
    IF i > Len(colorTiles) THEN st
    ELSE Force(GrowRun(<<colorTiles[i]>>, colorTiles, i + 1), LAMBDA run :
            IF Len(run) >= 3
            THEN Force(tryPlaySet(st, run), LAMBDA r :
                    IF r.ok THEN r ELSE RunLoop(r, colorTiles, i + 1))
            ELSE RunLoop(st, colorTiles, i + 1))

RunColor(st, color) ==
    Force(SortByNumber(SelectSeq(st.hand, LAMBDA t : t.color = color)),
          LAMBDA colorTiles : RunLoop(st, colorTiles, 1))

RECURSIVE RunColors(_, _)
RunColors(st, k) ==
    IF k > Len(colors) THEN st
    ELSE Force(RunColor(st, colors[k]), LAMBDA next : RunColors(next, k + 1))

RunPass(st) == Force(st, LAMBDA s : RunColors(s, 1))

RemoveAt(s, j) == SubSeq(s, 1, j - 1) \o SubSeq(s, j + 1, Len(s))

ExtensionsMutFirstTileOnly(st) ==
    {p \in (1..Len(st.board)) \X (1..Min2(1, Len(st.hand))) :
        isValidSet(Append(st.board[p[1]], st.hand[p[2]]))}

ExtensionsMutNoCheck(st) == (1..Len(st.board)) \X (1..Len(st.hand))

\* the (i, j) pairs of a scan of the board-extension pass that pass isValidSet
Extensions(st) ==
    {p \in (1..Len(st.board)) \X (1..Len(st.hand)) :
        isValidSet(Append(st.board[p[1]], st.hand[p[2]]))}

\* the scan takes the first such pair: smallest i, then smallest j
FirstOf(pairs) ==
    CHOOSE p \in pairs : \A q \in pairs : p[1] < q[1] \/ (p[1] = q[1] /\ p[2] <= q[2])

ExtendWithMutNoChange(st, p) == [st EXCEPT !.madeMove = TRUE]

ExtendWithMutNoFlag(st, p) ==
    [st EXCEPT !.board[p[1]] = Append(st.board[p[1]], st.hand[p[2]]),
               !.callerBoard = IF st.aliasBoard
                               THEN [@ EXCEPT ![p[1]] = Append(st.board[p[1]], st.hand[p[2]])]
                               ELSE @,
               !.hand = RemoveAt(st.hand, p[2]),
               !.callerHand = IF st.aliasHand THEN RemoveAt(st.hand, p[2]) ELSE @]

ExtendWithMutKeepsTile(st, p) ==
    [st EXCEPT !.board[p[1]] = Append(st.board[p[1]], st.hand[p[2]]),
               !.callerBoard = IF st.aliasBoard
                               THEN [@ EXCEPT ![p[1]] = Append(st.board[p[1]], st.hand[p[2]])]
                               ELSE @,
               !.madeMove = TRUE]

\* currentBoard[i] = testSet; currentHand.splice(j, 1); madeMove = true
ExtendWith(st, p) ==
    [st EXCEPT !.board[p[1]] = Append(st.board[p[1]], st.hand[p[2]]),
               !.callerBoard = IF st.aliasBoard
                               THEN [@ EXCEPT ![p[1]] = Append(st.board[p[1]], st.hand[p[2]])]
                               ELSE @,
               !.hand = RemoveAt(st.hand, p[2]),
               !.callerHand = IF st.aliasHand THEN RemoveAt(st.hand, p[2]) ELSE @,
               !.madeMove = TRUE]

\* one iteration of `while (changed)` that finds an extension
ExtendStep(st) == Force(Extensions(st), LAMBDA pairs : ExtendWith(st, FirstOf(pairs)))

\* `if (hasMeld)` and the loop's condition: the next scan changes something
CanExtend(st) == st.hasMeld /\ Extensions(st) # {}

RECURSIVE ExtendLoop(_)
ExtendLoop(st) ==
    IF CanExtend(st) THEN Force(ExtendStep(st), LAMBDA next : ExtendLoop(next)) ELSE st

ExtendPass(st) == Force(st, LAMBDA s : ExtendLoop(s))

aiPlayTurn(hand, board, hasMeldIn) ==
    Force(ExtendPass(RunPass(GroupPass(AiStart(hand, board, hasMeldIn)))), LAMBDA st :
        [newHand |-> st.hand, newBoard |-> st.board, madeMove |-> st.madeMove])

(***************************************************************************)
(* The state.  One variable per React state hook of App (gameState, gameId,*)
(* turnStartState, selectedInHand, isProcessingAI, turnPoints,             *)
(* turnTilesPlayed), the browser's pending timeouts (timers), and `call`,  *)
(* the activation record of an engine function called on its own.          *)
(* gameState.message and showHelp are display-only and are left out: the   *)
(* branches of a handler that only set a message leave the state unchanged.*)
(* History variables, read by no action: turnStart (board, meld status and *)
(* human hand when the current turn began), pendingAtReset (the last reset *)
(* cancelled a pending AI turn) and staleCommit (a callback scheduled in   *)
(* an earlier game changed gameState).                                     *)
(***************************************************************************)
VARIABLES gameState, gameId, turnStartState, selectedInHand, isProcessingAI,
          turnPoints, turnTilesPlayed, timers, turnStart, pendingAtReset,
          staleCommit, call

appVars == <<gameState, gameId, turnStartState, selectedInHand, isProcessingAI,
             turnPoints, turnTilesPlayed, timers, turnStart, pendingAtReset,
             staleCommit>>
vars == <<gameState, gameId, turnStartState, selectedInHand, isProcessingAI,
          turnPoints, turnTilesPlayed, timers, turnStart, pendingAtReset,
          staleCommit, call>>

\* null is the empty sequence and a value v that may be null is <<v>>
Null == <<>>
Some(v) == <<v>>

(***************************************************************************)
(* Bounds of the game specification.  The game is played with the tiles of *)
(* createDeck whose number lies in GameLoNumber..GameHiNumber, whose copy  *)
(* index is below GameCopies, and with the first GameJokers jokers; each   *)
(* hand is dealt HandSize tiles; Math.random returns k / RandomDen, in a   *)
(* stream of period RandomPeriod; the game is reset at most MaxResets      *)
(* times.                                                                  *)
(***************************************************************************)
GameLoNumber == 9
GameHiNumber == 12
GameCopies == 1
GameJokers == 2
HandSize == 3
RandomDen == 32
RandomPeriod == 2
MaxResets == 1

\* deck.splice(0, INITIAL_HAND_SIZE), cut down to the bound
DealSize == Min2(INITIAL_HAND_SIZE, HandSize)

InGame(t) ==
    IF t.isJoker THEN t.id[2] <= GameJokers
    ELSE t.number >= GameLoNumber /\ t.number <= GameHiNumber /\ t.id[3] < GameCopies

GameDeckOrdered == SelectSeq(createDeckOrdered, InGame)

\* Math.random() is 0, about one half, or just below 1
RandomValues == {0, RandomDen \div 2, RandomDen - 1}

RandomStreams == [0..(RandomPeriod - 1) -> RandomValues]

\* Math.floor(Math.random() * (i + 1)) at the c-th call of Math.random
RandomIndex(stream, c, i) == (stream[c % RandomPeriod] * (i + 1)) \div RandomDen

SwapMutOverwrite(a, i, j) == [a EXCEPT ![i] = a[j]]

\* [newArray[i], newArray[j]] = [newArray[j], newArray[i]]
Swap(a, i, j) == [a EXCEPT ![i] = a[j], ![j] = a[i]]

\* shuffle: for (i = length - 1; i > 0; i--) swap newArray[i], newArray[j];
\* indices are the code's 0-based ones, the sequence is 1-based
RECURSIVE ShuffleFrom(_, _, _)
ShuffleFrom(a, i, stream) ==
    IF i <= 0 THEN a
    ELSE Force(Swap(a, i + 1, RandomIndex(stream, Len(a) - 1 - i, i) + 1),
               LAMBDA next : ShuffleFrom(next, i - 1, stream))

shuffle(array, stream) == Force(array, LAMBDA a : ShuffleFrom(a, Len(a) - 1, stream))

\* deck.splice(0, n) four times, the rest is the pool
getInitialGameState(stream) ==
    Force(shuffle(GameDeckOrdered, stream), LAMBDA deck :
        [board |-> <<>>,
         playerHand |-> SubSeq(deck, 1, DealSize),
         aiHands |-> [k \in 1..3 |-> SubSeq(deck, k * DealSize + 1, (k + 1) * DealSize)],
         pool |-> SubSeq(deck, 4 * DealSize + 1, Len(deck)),
         currentPlayerIndex |-> 0,
         hasMeld |-> [p \in 0..3 |-> FALSE],
         winner |-> Null])

isPlayerTurn == gameState.currentPlayerIndex = 0

(***************************************************************************)
(* The two effects of App, run after every render.                         *)
(***************************************************************************)
\* the turn-start snapshot effect
NeedsSnapshot(gs, tss) ==
    gs.currentPlayerIndex = 0 /\ tss = Null /\ gs.winner = Null

\* the AI-turn effect runs when one of its dependencies changed
AiDepsChanged(gs, gid) ==
    \/ gs.currentPlayerIndex # gameState.currentPlayerIndex
    \/ gs.winner # gameState.winner
    \/ gid # gameId

AiTurnDue(gs) == gs.currentPlayerIndex # 0 /\ gs.winner = Null

CleanupMutNoClear(tm, gid) == tm

\* return () => clearTimeout(timer): the timeout the effect's last run set
Cleanup(tm, gid) == {t \in tm : t.currentId # gid}

\* const currentId = gameId; setTimeout(..., 800): the callback closes over
\* currentId and over the same render's gameId
NewTimer(gid) == [currentId |-> gid, gameId |-> gid]

\* what the history variable turnStart keeps of the state a turn began in
TurnStartOf(gs) == [board |-> gs.board, hasMeld |-> gs.hasMeld, playerHand |-> gs.playerHand]

\* A render of the state the handler left, followed by the effects.
Render(newState, gid, tss, sel, proc, tp, ttp, tm) ==
    \E gs \in {newState} :
    LET snap == NeedsSnapshot(gs, tss)
        deps == AiDepsChanged(gs, gid)
        due == AiTurnDue(gs)
    IN  /\ gameState' = gs
        /\ gameId' = gid
        /\ turnStartState' = IF snap THEN Some(gs) ELSE tss
        /\ turnPoints' = IF snap THEN 0 ELSE tp
        /\ turnTilesPlayed' = IF snap THEN <<>> ELSE ttp
        /\ selectedInHand' = sel
        /\ isProcessingAI' = IF deps /\ due THEN TRUE ELSE proc
        /\ timers' = IF deps
                     THEN Cleanup(tm, gameId) \cup (IF due THEN {NewTimer(gid)} ELSE {})
                     ELSE tm
        /\ turnStart' = IF gs.currentPlayerIndex # gameState.currentPlayerIndex \/ gid # gameId
                        THEN TurnStartOf(gs)
                        ELSE turnStart

(***************************************************************************)
(* The handlers of App, each with the guard of the element that calls it.  *)
(***************************************************************************)
SelectedTiles == SelectSeq(gameState.playerHand, LAMBDA t : t.id \in selectedInHand)
Unselected == SelectSeq(gameState.playerHand, LAMBDA t : t.id \notin selectedInHand)

toggleSelectInHand(id) ==
    /\ isPlayerTurn /\ gameState.winner = Null
    /\ id \in IdsOf(gameState.playerHand)
    /\ Render(gameState, gameId, turnStartState,
              IF id \in selectedInHand THEN selectedInHand \ {id}
              ELSE selectedInHand \cup {id},
              isProcessingAI, turnPoints, turnTilesPlayed, timers)
    /\ UNCHANGED <<pendingAtReset, staleCommit, call>>

handleReset ==
    /\ gameId < MaxResets
    /\ \E stream \in RandomStreams :
          Render(getInitialGameState(stream), gameId + 1, Null, {}, FALSE, 0, <<>>, timers)
    /\ pendingAtReset' = (timers # {})
    /\ UNCHANGED <<staleCommit, call>>

handleDrawMutNoPlayedCheck ==
    /\ isPlayerTurn /\ gameState.winner = Null /\ ~isProcessingAI
    /\ Len(gameState.pool) # 0
    /\ LET newPool == SubSeq(gameState.pool, 1, Len(gameState.pool) - 1)
           drawnTile == gameState.pool[Len(gameState.pool)]
       IN  Render([gameState EXCEPT !.playerHand = Append(gameState.playerHand, drawnTile),
                                    !.pool = newPool,
                                    !.currentPlayerIndex = 1],
                  gameId, Null, {}, isProcessingAI, turnPoints, turnTilesPlayed, timers)
    /\ UNCHANGED <<pendingAtReset, staleCommit, call>>

handleDraw ==
    /\ isPlayerTurn /\ gameState.winner = Null /\ ~isProcessingAI
    /\ Len(turnTilesPlayed) = 0
    /\ Len(gameState.pool) # 0
    /\ LET newPool == SubSeq(gameState.pool, 1, Len(gameState.pool) - 1)
           drawnTile == gameState.pool[Len(gameState.pool)]
       IN  Render([gameState EXCEPT !.playerHand = Append(gameState.playerHand, drawnTile),
                                    !.pool = newPool,
                                    !.currentPlayerIndex = 1],
                  gameId, Null, {}, isProcessingAI, turnPoints, turnTilesPlayed, timers)
    /\ UNCHANGED <<pendingAtReset, staleCommit, call>>

handlePlayNewSet ==
    /\ isPlayerTurn /\ Cardinality(selectedInHand) >= 3 /\ gameState.winner = Null
    /\ isValidSet(SelectedTiles)
    /\ LET selectedTiles == SelectedTiles
           points == calculateSetPoints(selectedTiles)
           newTurnPoints == turnPoints + points
           newHand == Unselected
           newBoard == Append(gameState.board, selectedTiles)
           won == Len(newHand) = 0 /\ (gameState.hasMeld[0] \/ newTurnPoints >= MeldThreshold)
       IN  Render([gameState EXCEPT !.playerHand = newHand,
                                    !.board = newBoard,
                                    !.winner = IF won THEN Some(0) ELSE @],
                  gameId, turnStartState, {}, isProcessingAI, newTurnPoints,
                  turnTilesPlayed \o selectedTiles, timers)
    /\ UNCHANGED <<pendingAtReset, staleCommit, call>>

handleAddToSetMutNoTurnGuard(setIdx) ==
    /\ setIdx \in 1..Len(gameState.board)
    /\ Cardinality(selectedInHand) # 0
    /\ gameState.hasMeld[0] \/ turnPoints >= MeldThreshold
    /\ LET selectedTiles == SelectedTiles
           newTestSet == gameState.board[setIdx] \o selectedTiles
       IN  /\ isValidSet(newTestSet)
           /\ Render([gameState EXCEPT !.playerHand = Unselected,
                                       !.board[setIdx] = newTestSet],
                     gameId, turnStartState, {}, isProcessingAI, turnPoints,
                     turnTilesPlayed \o selectedTiles, timers)
    /\ UNCHANGED <<pendingAtReset, staleCommit, call>>

handleAddToSet(setIdx) ==
    /\ isPlayerTurn
    /\ setIdx \in 1..Len(gameState.board)
    /\ Cardinality(selectedInHand) # 0
    /\ gameState.hasMeld[0] \/ turnPoints >= MeldThreshold
    /\ LET selectedTiles == SelectedTiles
           newTestSet == gameState.board[setIdx] \o selectedTiles
       IN  /\ isValidSet(newTestSet)
           /\ Render([gameState EXCEPT !.playerHand = Unselected,
                                       !.board[setIdx] = newTestSet],
                     gameId, turnStartState, {}, isProcessingAI, turnPoints,
                     turnTilesPlayed \o selectedTiles, timers)
    /\ UNCHANGED <<pendingAtReset, staleCommit, call>>

handleUndoMutHandOnly ==
    /\ isPlayerTurn /\ Len(turnTilesPlayed) # 0
    /\ turnStartState # Null
    /\ Render([gameState EXCEPT !.playerHand = turnStartState[1].playerHand],
              gameId, turnStartState, {}, isProcessingAI, 0, <<>>, timers)
    /\ UNCHANGED <<pendingAtReset, staleCommit, call>>

handleUndo ==
    /\ isPlayerTurn /\ Len(turnTilesPlayed) # 0
    /\ turnStartState # Null
    /\ Render(turnStartState[1], gameId, turnStartState, {}, isProcessingAI, 0, <<>>, timers)
    /\ UNCHANGED <<pendingAtReset, staleCommit, call>>

handleEndTurnMutNoMeldCheck ==
    /\ isPlayerTurn /\ gameState.winner = Null /\ ~isProcessingAI
    /\ Len(turnTilesPlayed) # 0
    /\ Render([gameState EXCEPT !.currentPlayerIndex = 1,
                                !.hasMeld[0] = IF turnPoints >= MeldThreshold THEN TRUE ELSE @],
              gameId, Null, selectedInHand, isProcessingAI, 0, <<>>, timers)
    /\ UNCHANGED <<pendingAtReset, staleCommit, call>>

handleEndTurn ==
    /\ isPlayerTurn /\ gameState.winner = Null /\ ~isProcessingAI
    /\ Len(turnTilesPlayed) # 0
    /\ gameState.hasMeld[0] \/ turnPoints >= MeldThreshold
    /\ Render([gameState EXCEPT !.currentPlayerIndex = 1,
                                !.hasMeld[0] = IF turnPoints >= MeldThreshold THEN TRUE ELSE @],
              gameId, Null, selectedInHand, isProcessingAI, 0, <<>>, timers)
    /\ UNCHANGED <<pendingAtReset, staleCommit, call>>

handleSort(type) ==
    /\ Render([gameState EXCEPT !.playerHand = sortHand(gameState.playerHand, type)],
              gameId, turnStartState, selectedInHand, isProcessingAI, turnPoints,
              turnTilesPlayed, timers)
    /\ UNCHANGED <<pendingAtReset, staleCommit, call>>

(***************************************************************************)
(* The callback of the AI-turn effect's timeout.                           *)
(***************************************************************************)
AiUpdaterMutDrawsFirst(prev, t) ==
    IF t.currentId # t.gameId THEN prev
    ELSE IF prev.currentPlayerIndex = 0 THEN prev
    ELSE Force(aiPlayTurn(prev.aiHands[prev.currentPlayerIndex], prev.board,
                          prev.hasMeld[prev.currentPlayerIndex]), LAMBDA r :
         LET aiIdx == prev.currentPlayerIndex
             draws == ~r.madeMove /\ Len(prev.pool) > 0
             finalHand == IF draws THEN Append(r.newHand, prev.pool[1]) ELSE r.newHand
             finalPool == IF draws THEN SubSeq(prev.pool, 2, Len(prev.pool)) ELSE prev.pool
         IN  [prev EXCEPT !.aiHands[aiIdx] = finalHand,
                          !.board = r.newBoard,
                          !.pool = finalPool,
                          !.hasMeld[aiIdx] = IF r.madeMove THEN TRUE ELSE @,
                          !.currentPlayerIndex = (aiIdx + 1) % 4,
                          !.winner = IF Len(finalHand) = 0 THEN Some(aiIdx) ELSE Null])

AiUpdaterMutAlwaysMeld(prev, t) ==
    IF t.currentId # t.gameId THEN prev
    ELSE IF prev.currentPlayerIndex = 0 THEN prev
    ELSE Force(aiPlayTurn(prev.aiHands[prev.currentPlayerIndex], prev.board,
                          prev.hasMeld[prev.currentPlayerIndex]), LAMBDA r :
         LET aiIdx == prev.currentPlayerIndex
             draws == ~r.madeMove /\ Len(prev.pool) > 0
             finalHand == IF draws THEN Append(r.newHand, prev.pool[Len(prev.pool)])
                          ELSE r.newHand
             finalPool == IF draws THEN SubSeq(prev.pool, 1, Len(prev.pool) - 1)
                          ELSE prev.pool
         IN  [prev EXCEPT !.aiHands[aiIdx] = finalHand,
                          !.board = r.newBoard,
                          !.pool = finalPool,
                          !.hasMeld[aiIdx] = TRUE,
                          !.currentPlayerIndex = (aiIdx + 1) % 4,
                          !.winner = IF Len(finalHand) = 0 THEN Some(aiIdx) ELSE Null])

AiUpdaterMutMeldIsMove(prev, t) ==
    Force(aiPlayTurn(prev.aiHands[prev.currentPlayerIndex], prev.board,
                     prev.hasMeld[prev.currentPlayerIndex]), LAMBDA r :
    LET aiIdx == prev.currentPlayerIndex
        draws == ~r.madeMove /\ Len(prev.pool) > 0
        finalHand == IF draws THEN Append(r.newHand, prev.pool[Len(prev.pool)]) ELSE r.newHand
        finalPool == IF draws THEN SubSeq(prev.pool, 1, Len(prev.pool) - 1) ELSE prev.pool
    IN  [prev EXCEPT !.aiHands[aiIdx] = finalHand,
                     !.board = r.newBoard,
                     !.pool = finalPool,
                     !.hasMeld[aiIdx] = r.madeMove,
                     !.currentPlayerIndex = (aiIdx + 1) % 4,
                     !.winner = IF Len(finalHand) = 0 THEN Some(aiIdx) ELSE Null])

\* the function passed to setGameState; prev.aiHands[aiIdx - 1] is aiHands[aiIdx] here
AiUpdater(prev, t) ==
    IF t.currentId # t.gameId THEN prev
    ELSE IF prev.currentPlayerIndex = 0 THEN prev
    ELSE Force(aiPlayTurn(prev.aiHands[prev.currentPlayerIndex], prev.board,
                          prev.hasMeld[prev.currentPlayerIndex]), LAMBDA r :
         LET aiIdx == prev.currentPlayerIndex
             draws == ~r.madeMove /\ Len(prev.pool) > 0
             finalHand == IF draws THEN Append(r.newHand, prev.pool[Len(prev.pool)])
                          ELSE r.newHand
             finalPool == IF draws THEN SubSeq(prev.pool, 1, Len(prev.pool) - 1)
                          ELSE prev.pool
         IN  [prev EXCEPT !.aiHands[aiIdx] = finalHand,
                          !.board = r.newBoard,
                          !.pool = finalPool,
                          !.hasMeld[aiIdx] = IF r.madeMove THEN TRUE ELSE @,
                          !.currentPlayerIndex = (aiIdx + 1) % 4,
                          !.winner = IF Len(finalHand) = 0 THEN Some(aiIdx) ELSE Null])

AiTimerFires ==
    \E t \in timers :
        \E gs \in {AiUpdater(gameState, t)} :
            /\ Render(gs, gameId, turnStartState, selectedInHand, FALSE, turnPoints,
                      turnTilesPlayed, timers \ {t})
            /\ staleCommit' = (staleCommit \/ (t.currentId # gameId /\ gs # gameState))
            /\ UNCHANGED <<pendingAtReset, call>>

(***************************************************************************)
(* The game specification.                                                 *)
(***************************************************************************)
NoCall == [fn |-> "none"]

Init ==
    /\ \E stream \in RandomStreams :
          /\ gameState = getInitialGameState(stream)
          /\ turnStartState = Some(getInitialGameState(stream))
          /\ turnStart = TurnStartOf(gameState)
    /\ gameId = 0
    /\ selectedInHand = {}
    /\ isProcessingAI = FALSE
    /\ turnPoints = 0
    /\ turnTilesPlayed = <<>>
    /\ timers = {}
    /\ pendingAtReset = FALSE
    /\ staleCommit = FALSE
    /\ call = NoCall

Next ==
    \/ \E id \in IdsOf(gameState.playerHand) : toggleSelectInHand(id)
    \/ handleReset
    \/ handleDraw
    \/ handlePlayNewSet
    \/ \E setIdx \in 1..Len(gameState.board) : handleAddToSet(setIdx)
    \/ handleUndo
    \/ handleEndTurn
    \/ \E type \in {"number", "color"} : handleSort(type)
    \/ AiTimerFires

Spec == Init /\ [][Next]_vars

(***************************************************************************)
(* Properties of the game specification.                                   *)
(***************************************************************************)
\* how many times the tile with this id occurs in a sequence of tiles
Occurrences(tiles, id) == Cardinality({i \in 1..Len(tiles) : tiles[i].id = id})

\* how many times it occurs in the hands, the pool and the board sets of gs
TileCount(gs, id) ==
    Occurrences(gs.playerHand, id) + Occurrences(gs.pool, id)
    + Occurrences(gs.aiHands[1], id) + Occurrences(gs.aiHands[2], id)
    + Occurrences(gs.aiHands[3], id)
    + Cardinality({ij \in (1..Len(gs.board)) \X (1..Len(GameDeckOrdered)) :
                      ij[2] <= Len(gs.board[ij[1]]) /\ gs.board[ij[1]][ij[2]].id = id})

\* the ids that occur anywhere in gs
IdsIn(gs) ==
    IdsOf(gs.playerHand) \cup IdsOf(gs.pool) \cup IdsOf(gs.aiHands[1])
    \cup IdsOf(gs.aiHands[2]) \cup IdsOf(gs.aiHands[3])
    \cup UNION {IdsOf(gs.board[i]) : i \in 1..Len(gs.board)}

\* C1: the deck of createDeck has 106 tiles with 106 different ids, and in
\* every reachable game state each tile the game is played with is in exactly
\* one of the human hand, an AI hand, the pool and a board set: none is
\* duplicated, none is lost, none appears from outside the deck.
C1_TileConservation ==
    /\ Len(createDeckOrdered) = 106
    /\ Cardinality(IdsOf(createDeckOrdered)) = 106
    /\ IdsIn(gameState) = IdsOf(GameDeckOrdered)
    /\ \A id \in IdsOf(GameDeckOrdered) : TileCount(gameState, id) = 1

\* tiles were drawn from the pool and two sets were put on the board
C1_Witness ==
    /\ Len(gameState.board) >= 2
    /\ Len(gameState.pool) < Len(GameDeckOrdered) - 4 * DealSize
    /\ \E p \in 1..3 : gameState.hasMeld[p]

\* C2: in every reachable game state every set on the board is accepted by
\* isValidSet, whether the human or the AI appended or extended it.
C2_BoardSetsValid ==
    \A i \in 1..Len(gameState.board) : isValidSet(gameState.board[i])

\* the board holds several sets, one of them extended beyond three tiles,
\* after the human and an AI have both put tiles down
C2_Witness ==
    /\ Len(gameState.board) >= 2
    /\ \E i \in 1..Len(gameState.board) : Len(gameState.board[i]) >= 4
    /\ gameState.hasMeld[0]
    /\ \E p \in 1..3 : gameState.hasMeld[p]

\* C8: no callback scheduled before a reset is pending after it, and none
\* has changed the state of the game that followed.
C8_StaleResultNeverApplied ==
    /\ staleCommit = FALSE
    /\ \A t \in timers : t.currentId = gameId

\* the game was reset while an AI turn was pending, and the new game has
\* reached an AI turn of its own
C8_Witness ==
    /\ pendingAtReset
    /\ gameId > 0
    /\ gameState.currentPlayerIndex # 0
    /\ timers # {}

\* C9: a step that stays within one game never turns hasMeld[p] from true
\* to false, for any player p.
C9_HasMeldMonotonic ==
    [][gameId' = gameId =>
          \A p \in 0..3 : gameState.hasMeld[p] => gameState'.hasMeld[p]]_vars

\* the human, who melded in an earlier turn, has played tiles in this turn
\* (so that undo is possible), and an AI that melded earlier is still playing
C9_Witness ==
    /\ gameState.currentPlayerIndex = 0
    /\ turnStart.hasMeld[0]
    /\ Len(turnTilesPlayed) > 0
    /\ \E p \in 1..3 : gameState.hasMeld[p] /\ Len(gameState.aiHands[p]) > 0

\* the ids of the tiles on a board
BoardIds(board) == UNION {IdsOf(board[i]) : i \in 1..Len(board)}

\* the points of the sets of board from index k on
RECURSIVE PointsFrom(_, _)
PointsFrom(board, k) ==
    IF k > Len(board) THEN 0
    ELSE calculateSetPoints(board[k]) + PointsFrom(board, k + 1)

\* C10: when the player index advances within a game and the board holds
\* tiles the player of the ending turn placed during it, that player had
\* melded before the turn or the sets new in this turn score 30 or more.
C10_InitialMeldRule ==
    [][(gameId' = gameId
        /\ gameState'.currentPlayerIndex # gameState.currentPlayerIndex
        /\ BoardIds(gameState'.board) \ BoardIds(turnStart.board) # {})
       => \/ turnStart.hasMeld[gameState.currentPlayerIndex]
          \/ PointsFrom(gameState'.board, Len(turnStart.board) + 1) >= MeldThreshold]_vars

\* the human has just ended the turn of the initial meld: the first AI is to
\* play, only the human has melded, and the human's sets are on the board
C10_Witness ==
    /\ gameState.currentPlayerIndex = 1
    /\ gameState.hasMeld[0]
    /\ \A p \in 1..3 : ~gameState.hasMeld[p]
    /\ gameState.board # <<>>
    /\ turnStart.board = gameState.board

(***************************************************************************)
(* The rules engine called on its own: isValidSet and calculateSetPoints   *)
(* applied to collections of distinct deck tiles.  The collections are the *)
(* sub-collections of the thirteen tiles of one colour with both jokers,   *)
(* and those of at most MaxSetInput tiles among the tiles of the           *)
(* GroupNumbers highest numbers (every colour, one colour in both copies)  *)
(* with both jokers; each is passed in deck order and in reverse order.    *)
(***************************************************************************)
GroupNumbers == 2
MaxSetInput == 5

RunInputTiles ==
    SelectSeq(createDeckOrdered, LAMBDA t : t.isJoker \/ (t.color = Red /\ t.id[3] = 0))

GroupInputTiles ==
    SelectSeq(createDeckOrdered, LAMBDA t :
        t.isJoker \/ (t.number > MaxNumber - GroupNumbers /\ (t.id[3] = 0 \/ t.color = Red)))

Reverse(s) == [i \in 1..Len(s) |-> s[Len(s) + 1 - i]]

SetInputs ==
    {SelectSeq(RunInputTiles, LAMBDA t : t.id \in S) : S \in SUBSET IdsOf(RunInputTiles)}
    \cup {SelectSeq(GroupInputTiles, LAMBDA t : t.id \in S) :
            S \in {T \in SUBSET IdsOf(GroupInputTiles) : Cardinality(T) <= MaxSetInput}}

\* the App state while the engine is exercised on its own
AppIdle ==
    /\ gameState = getInitialGameState([k \in 0..(RandomPeriod - 1) |-> 0])
    /\ turnStartState = Some(gameState)
    /\ turnStart = TurnStartOf(gameState)
    /\ gameId = 0
    /\ selectedInHand = {}
    /\ isProcessingAI = FALSE
    /\ turnPoints = 0
    /\ turnTilesPlayed = <<>>
    /\ timers = {}
    /\ pendingAtReset = FALSE
    /\ staleCommit = FALSE

InitValid ==
    /\ AppIdle
    /\ \E fn \in {"isValidSet", "calculateSetPoints"}, s \in SetInputs, rev \in BOOLEAN :
          call = [fn |-> fn, set |-> IF rev THEN Reverse(s) ELSE s, result |-> Null]

EvalIsValidSet ==
    /\ call.fn = "isValidSet" /\ call.result = Null
    /\ call' = [call EXCEPT !.result = Some(isValidSet(call.set))]
    /\ UNCHANGED appVars

EvalCalculateSetPoints ==
    /\ call.fn = "calculateSetPoints" /\ call.result = Null
    /\ call' = [call EXCEPT !.result = Some(calculateSetPoints(call.set))]
    /\ UNCHANGED appVars

NextValid == EvalIsValidSet \/ EvalCalculateSetPoints

SpecValid == InitValid /\ [][NextValid]_vars

NumbersOf(set) == {set[i].number : i \in {j \in 1..Len(set) : ~set[j].isJoker}}
NumJokersIn(set) == Cardinality({i \in 1..Len(set) : set[i].isJoker})

\* the wildcards can stand for tiles that make the whole a group: 3 or 4
\* tiles of one number whose colours, under some assignment of colours to
\* the wildcards, are pairwise different
RefGroup(set) ==
    /\ Len(set) \in {3, 4}
    /\ \E n \in 1..MaxNumber : \E f \in [1..Len(set) -> Range(colors)] :
          /\ \A i, j \in 1..Len(set) : i # j => f[i] # f[j]
          /\ \A i \in 1..Len(set) :
                ~set[i].isJoker => (set[i].number = n /\ set[i].color = f[i])

\* the wildcards can stand for tiles that make the whole a run: 3 to 13
\* tiles of one colour on the consecutive numbers s..s+size-1 within 1..13;
\* every numbered tile has the colour and a number of the window, and the
\* numbers of the window that no numbered tile carries are as many as the
\* wildcards, which stand for them
RefRun(set) ==
    /\ Len(set) >= 3 /\ Len(set) <= MaxNumber
    /\ \E c \in Range(colors) : \E s \in 1..(MaxNumber - Len(set) + 1) :
          LET window == s..(s + Len(set) - 1)
          IN  /\ \A i \in 1..Len(set) :
                    ~set[i].isJoker => (set[i].color = c /\ set[i].number \in window)
              /\ Cardinality(window \ NumbersOf(set)) = NumJokersIn(set)

\* C3: isValidSet returns true exactly when the collection has at least 3
\* tiles and its wildcards can stand for tiles that make it a group or a
\* run; in particular it returns false for fewer than 3 tiles.
C3_IsValidSetIffGroupOrRun ==
    (call.fn = "isValidSet" /\ call.result # Null)
    => call.result[1] = (Len(call.set) >= 3 /\ (RefGroup(call.set) \/ RefRun(call.set)))

\* isValidSet accepted a run of five tiles or more that holds both jokers
C3_Witness ==
    /\ call.fn = "isValidSet"
    /\ call.result = Some(TRUE)
    /\ Len(call.set) >= 5
    /\ NumJokersIn(call.set) = 2

\* a + (a + 1) + ... + b
RECURSIVE SumOfRange(_, _)
SumOfRange(a, b) == IF a > b THEN 0 ELSE a + SumOfRange(a + 1, b)

MaxOf(S) == CHOOSE x \in S : \A y \in S : y <= x

\* the starts s for which the window s..s+size-1 lies within 1..13 and
\* contains every non-wild number of the set
WindowStarts(set) ==
    {s \in 1..(MaxNumber - Len(set) + 1) :
        \A n \in NumbersOf(set) : s <= n /\ n <= s + Len(set) - 1}

LeastStart(set) == CHOOSE s \in WindowStarts(set) : \A r \in WindowStarts(set) : s <= r

\* C4: for a valid set whose non-wild tiles carry at least two different
\* numbers (a run), calculateSetPoints returns the sum of the numbers of
\* the window of `size` consecutive numbers with the least start s that
\* lies within 1..13 and contains every non-wild number, and
\* s = max(1, maxNum - size + 1).
C4_RunPointsLeastWindow ==
    (/\ call.fn = "calculateSetPoints" /\ call.result # Null
     /\ isValidSet(call.set)
     /\ Cardinality(NumbersOf(call.set)) >= 2)
    => /\ WindowStarts(call.set) # {}
       /\ LeastStart(call.set) = Max2(1, MaxOf(NumbersOf(call.set)) - Len(call.set) + 1)
       /\ call.result[1] =
             SumOfRange(LeastStart(call.set), LeastStart(call.set) + Len(call.set) - 1)

\* the run {Wild, Red-2, Red-3} was scored 6: the wildcard stands for 1
C4_Witness ==
    /\ call.fn = "calculateSetPoints"
    /\ call.result = Some(6)
    /\ Len(call.set) = 3
    /\ NumJokersIn(call.set) = 1
    /\ NumbersOf(call.set) = {2, 3}

(***************************************************************************)
(* aiPlayTurn called on its own, pass by pass, one iteration of the        *)
(* board-extension loop at a time.  The hands are the sub-sequences of at  *)
(* most MaxAiHand tiles of AiHandTiles, the boards the sequences of at     *)
(* most MaxAiBoard different sets of AiBoardSets; no tile is both in a     *)
(* hand and on a board.                                                    *)
(***************************************************************************)
MaxAiHand == 5
MaxAiBoard == 2

AiHandTiles ==
    <<Tile(Red, 10, 1), Tile(Red, 11, 0), Tile(Blue, 9, 0), JokerTile(1),
      Tile(Red, 8, 0), Tile(Orange, 10, 0), Tile(Blue, 10, 0), Tile(Red, 10, 0),
      Tile(Black, 9, 0), Tile(Red, 9, 0), Tile(Orange, 9, 0), Tile(Black, 10, 0)>>

AiBoardSets ==
    {<<Tile(Blue, 11, 0), Tile(Orange, 11, 0), Tile(Black, 11, 0)>>,
     <<Tile(Red, 12, 0), Tile(Red, 13, 0), JokerTile(2)>>,
     <<Tile(Blue, 11, 1), Tile(Blue, 12, 0), Tile(Blue, 13, 0)>>}

AiHands ==
    {SelectSeq(AiHandTiles, LAMBDA t : t.id \in S) :
        S \in {T \in SUBSET IdsOf(AiHandTiles) : Cardinality(T) <= MaxAiHand}}

AiBoards ==
    {b \in UNION {[1..n -> AiBoardSets] : n \in 0..MaxAiBoard} :
        \A i, j \in 1..Len(b) : i # j => b[i] # b[j]}

InitAI ==
    /\ AppIdle
    /\ \E hand \in AiHands, board \in AiBoards, hasMeldIn \in BOOLEAN :
          call = [fn |-> "aiPlayTurn", pc |-> "groups", hand |-> hand, board |-> board,
                  hasMeld |-> hasMeldIn, st |-> AiStart(hand, board, hasMeldIn),
                  result |-> Null]

AiGroupPass ==
    /\ call.fn = "aiPlayTurn" /\ call.pc = "groups"
    /\ call' = [call EXCEPT !.pc = "runs", !.st = GroupPass(call.st)]
    /\ UNCHANGED appVars

AiRunPass ==
    /\ call.fn = "aiPlayTurn" /\ call.pc = "runs"
    /\ call' = [call EXCEPT !.pc = "extend", !.st = RunPass(call.st)]
    /\ UNCHANGED appVars

AiExtendStep ==
    /\ call.fn = "aiPlayTurn" /\ call.pc = "extend"
    /\ CanExtend(call.st)
    /\ call' = [call EXCEPT !.st = ExtendStep(call.st)]
    /\ UNCHANGED appVars

AiReturn ==
    /\ call.fn = "aiPlayTurn" /\ call.pc = "extend"
    /\ ~CanExtend(call.st)
    /\ call' = [call EXCEPT !.pc = "done",
                            !.result = Some([newHand |-> call.st.hand,
                                             newBoard |-> call.st.board,
                                             madeMove |-> call.st.madeMove])]
    /\ UNCHANGED appVars

NextAI == AiGroupPass \/ AiRunPass \/ AiExtendStep \/ AiReturn

\* the function runs to completion once called: no step of it waits
SpecAI == InitAI /\ [][NextAI]_vars /\ WF_vars(NextAI)

\* the tiles of hand at the positions I, in hand order
TilesAt(hand, I) == SelectSeq(hand, LAMBDA t : \E i \in I : hand[i] = t)

MinOf(S) == CHOOSE x \in S : \A y \in S : x <= y

\* the most points that pairwise disjoint valid sets made of the hand tiles
\* at the positions I can score together
RECURSIVE BestCombination(_, _)
BestCombination(hand, I) ==
    IF I = {} THEN 0
    ELSE LET m == MinOf(I)
             with == {A \in SUBSET I : m \in A /\ isValidSet(TilesAt(hand, A))}
         IN  MaxOf({BestCombination(hand, I \ {m})}
                   \cup {calculateSetPoints(TilesAt(hand, A)) + BestCombination(hand, I \ A) :
                           A \in with})

\* C5: aiPlayTurn called with hasMeld = false and a hand whose best
\* combination of sets scores less than 30 returns madeMove = false, the
\* input hand (same tiles, same order) and the input board.
C5_NoMeldNoMove ==
    (/\ call.pc = "done" /\ ~call.hasMeld
     /\ BestCombination(call.hand, 1..Len(call.hand)) < MeldThreshold)
    => /\ call.result[1].madeMove = FALSE
       /\ call.result[1].newHand = call.hand
       /\ call.result[1].newBoard = call.board

\* the turn returned for a hand that holds a valid set, worth less than 30,
\* in front of a board that holds sets
C5_Witness ==
    /\ call.pc = "done" /\ ~call.hasMeld
    /\ BestCombination(call.hand, 1..Len(call.hand)) < MeldThreshold
    /\ BestCombination(call.hand, 1..Len(call.hand)) > 0
    /\ call.board # <<>>

\* C6: at every point of aiPlayTurn, and in what it returns, the working
\* hand and the sets of the working board hold exactly the tiles of the
\* input hand and of the input board sets, each id once; the hand holds only
\* tiles of the input hand and every input board tile is still on the board.
C6_AiConservesTiles ==
    LET inIds == IdsOf(call.hand) \cup BoardIds(call.board)
    IN  /\ IdsOf(call.st.hand) \cup BoardIds(call.st.board) = inIds
        /\ \A id \in inIds :
              Occurrences(call.st.hand, id)
              + Cardinality({ij \in (1..Len(call.st.board)) \X (1..Cardinality(inIds)) :
                                ij[2] <= Len(call.st.board[ij[1]])
                                /\ call.st.board[ij[1]][ij[2]].id = id}) = 1
        /\ IdsOf(call.st.hand) \subseteq IdsOf(call.hand)
        /\ BoardIds(call.board) \subseteq BoardIds(call.st.board)
        /\ call.pc = "done" =>
              call.result[1].newHand = call.st.hand /\ call.result[1].newBoard = call.st.board

\* the turn returned after it appended a new set and extended a set
C6_Witness ==
    /\ call.pc = "done"
    /\ Len(call.st.board) > Len(call.board)
    /\ \E i \in 1..Len(call.board) : Len(call.st.board[i]) > Len(call.board[i])
    /\ call.st.hand # <<>>

\* how many sets of board hold the tile with this id
SetsHolding(board, id) == Cardinality({i \in 1..Len(board) : id \in IdsOf(board[i])})

\* C7: aiPlayTurn returns (its board-extension loop terminates), and at no
\* point of the loop is a tile of the input hand in more than one board set
\* or more than once in a set.
C7_ExtensionTerminates ==
    /\ <>(call.pc = "done")
    /\ [](\A id \in IdsOf(call.hand) :
             /\ SetsHolding(call.st.board, id) <= 1
             /\ \A i \in 1..Len(call.st.board) : Occurrences(call.st.board[i], id) <= 1)

\* the loop ended after it appended three hand tiles or more to board sets,
\* when two sets could take a tile at its first scan
C7_Witness ==
    /\ call.pc = "done"
    /\ Cardinality({id \in IdsOf(call.hand) :
                       \E i \in 1..Len(call.board) : id \in IdsOf(call.st.board[i])}) >= 3
    /\ \E p, q \in Extensions(AiStart(call.hand, call.board, TRUE)) : p[1] # q[1]

(***************************************************************************)
(* Further properties of the game specification.                           *)
(***************************************************************************)
\* C11: within a game, while the human is to move no AI hand changes; while
\* AI i is to move the human hand keeps its tiles and the other AI hands
\* are unchanged, and the board, the pool and AI i's hand change only in the
\* step that commits AI i's turn and passes the turn on.  So no human action
\* moves a tile while an AI is to move, whatever selection is left over.
C11_TurnsSerialized ==
    [][gameId' = gameId =>
          LET i == gameState.currentPlayerIndex
          IN  /\ i = 0 => gameState'.aiHands = gameState.aiHands
              /\ i # 0 =>
                    /\ IdsOf(gameState'.playerHand) = IdsOf(gameState.playerHand)
                    /\ Len(gameState'.playerHand) = Len(gameState.playerHand)
                    /\ \A k \in 1..3 : k # i => gameState'.aiHands[k] = gameState.aiHands[k]
                    /\ (\/ gameState'.board # gameState.board
                        \/ gameState'.pool # gameState.pool
                        \/ gameState'.aiHands[i] # gameState.aiHands[i])
                       => /\ gameState'.currentPlayerIndex = (i + 1) % 4
                          /\ gameState'.playerHand = gameState.playerHand]_vars

\* an AI is to move while the human, who has melded, still has tiles
\* selected and sets lie on the board
C11_Witness ==
    /\ gameState.currentPlayerIndex # 0
    /\ gameState.winner = Null
    /\ selectedInHand # {}
    /\ gameState.hasMeld[0]
    /\ gameState.board # <<>>

\* C12: a step within the human's turn that empties the tiles played in the
\* turn (an undo) leaves the human hand and the board exactly as they were
\* when the turn began, with the turn's points at 0; the pool, the AI hands
\* and the meld statuses are what they were before the step.
C12_UndoRestoresTurnStart ==
    [][(/\ gameId' = gameId
        /\ gameState.currentPlayerIndex = 0 /\ gameState'.currentPlayerIndex = 0
        /\ Len(turnTilesPlayed) > 0 /\ Len(turnTilesPlayed') = 0)
       => /\ gameState'.playerHand = turnStart.playerHand
          /\ gameState'.board = turnStart.board
          /\ turnPoints' = 0
          /\ gameState'.pool = gameState.pool
          /\ gameState'.aiHands = gameState.aiHands
          /\ gameState'.hasMeld = gameState.hasMeld]_vars

\* the human has placed tiles on a board that held opponents' sets when the
\* turn began, and can undo
C12_Witness ==
    /\ gameState.currentPlayerIndex = 0
    /\ Len(turnTilesPlayed) > 0
    /\ turnStart.board # <<>>
    /\ \E p \in 1..3 : gameState.hasMeld[p]
    /\ IdsOf(gameState.playerHand) # IdsOf(turnStart.playerHand)
    /\ ENABLED handleUndo

\* the hand of player p in gs
HandOf(gs, p) == IF p = 0 THEN gs.playerHand ELSE gs.aiHands[p]

\* C13: a step of an undecided game that moves tiles to the board and leaves
\* the hand of the player to move empty, that player having melded before
\* the turn or placed new sets worth 30 points in it, sets winner to that
\* player in the same step.
C13_VictoryDetected ==
    [][LET p == gameState.currentPlayerIndex
       IN  (/\ gameId' = gameId
            /\ gameState.winner = Null
            /\ BoardIds(gameState'.board) \ BoardIds(gameState.board) # {}
            /\ HandOf(gameState', p) = <<>>
            /\ \/ turnStart.hasMeld[p]
               \/ PointsFrom(gameState'.board, Len(turnStart.board) + 1) >= MeldThreshold)
           => gameState'.winner = Some(p)]_vars

\* C20: within a game, hasMeld[p] goes from false to true only in the step
\* that ends a turn of player p, and the sets that turn added to the board
\* score 30 points or more in total; for an AI this is every turn that
\* reports madeMove = true while the AI's hasMeld was false.
C20_MeldNeedsThirty ==
    [][gameId' = gameId =>
          \A p \in 0..3 :
              (~gameState.hasMeld[p] /\ gameState'.hasMeld[p])
              => /\ gameState.currentPlayerIndex = p
                 /\ gameState'.currentPlayerIndex = (p + 1) % 4
                 /\ Len(gameState'.board) > Len(turnStart.board)
                 /\ PointsFrom(gameState'.board, Len(turnStart.board) + 1) >= MeldThreshold]_vars

\* the first AI has just made its initial meld: it is the only player that
\* has melded, the next AI is to play, and its set is the only one on the board
C20_Witness ==
    /\ gameState.currentPlayerIndex = 2
    /\ gameState.hasMeld[1]
    /\ \A p \in {0, 2, 3} : ~gameState.hasMeld[p]
    /\ Len(gameState.board) = 1
    /\ turnStart.board = gameState.board

\* C21: within a game the player index changes only to the next index
\* modulo 4, and the step that ends the turn of AI p is exactly one of a
\* move (aiPlayTurn reports madeMove: the pool is unchanged, the hand is
\* shorter), a draw (no move, pool not empty: the last pool tile leaves the
\* pool and is appended to the hand of p, the board is unchanged) or a pass
\* (no move, pool empty: hand, pool and board unchanged).
C21_AiTurnOutcome ==
    [][(gameId' = gameId /\ gameState'.currentPlayerIndex # gameState.currentPlayerIndex)
       => /\ gameState'.currentPlayerIndex = (gameState.currentPlayerIndex + 1) % 4
          /\ gameState.currentPlayerIndex # 0 =>
               LET p == gameState.currentPlayerIndex
                   pool == gameState.pool
                   hand == gameState.aiHands[p]
                   r == aiPlayTurn(hand, gameState.board, gameState.hasMeld[p])
                   move == /\ gameState'.pool = pool
                           /\ Len(gameState'.aiHands[p]) < Len(hand)
                           /\ gameState'.board # gameState.board
                   draw == /\ pool # <<>>
                           /\ gameState'.pool = SubSeq(pool, 1, Len(pool) - 1)
                           /\ gameState'.aiHands[p] = Append(hand, pool[Len(pool)])
                           /\ gameState'.board = gameState.board
                   pass == /\ pool = <<>>
                           /\ gameState'.pool = pool
                           /\ gameState'.aiHands[p] = hand
                           /\ gameState'.board = gameState.board
               IN  /\ move \/ draw \/ pass
                   /\ move <=> r.madeMove
                   /\ \A q \in 1..3 : q # p => gameState'.aiHands[q] = gameState.aiHands[q]
                   /\ gameState'.playerHand = gameState.playerHand]_vars

\* the second AI is to play after the first AI drew from a pool that held
\* two tiles or more
C21_Witness ==
    /\ gameState.currentPlayerIndex = 2
    /\ Len(gameState.aiHands[1]) > DealSize
    /\ Len(gameState.pool) >= 1
    /\ gameState.winner = Null

\* C22: within a game, while the human is to move the pool changes only by
\* a draw, which happens only when the board holds no tile placed in this
\* turn: it takes the last pool tile, appends it to the human hand, leaves
\* the board as it was when the turn began and passes the turn.  The turn
\* passes without a draw only when the board holds a tile placed in this
\* turn, and then the hand and the pool are unchanged.  So no human turn
\* both places tiles and draws, and a turn without placed tiles cannot be
\* ended.
C22_DrawOrPlay ==
    [][(gameId' = gameId /\ gameState.currentPlayerIndex = 0)
       => LET pool == gameState.pool
              placed == BoardIds(gameState.board) \ BoardIds(turnStart.board)
              drew == gameState'.pool # pool
              passed == gameState'.currentPlayerIndex # 0
          IN  /\ drew =>
                   /\ placed = {}
                   /\ pool # <<>>
                   /\ gameState'.pool = SubSeq(pool, 1, Len(pool) - 1)
                   /\ gameState'.playerHand = Append(gameState.playerHand, pool[Len(pool)])
                   /\ IdsOf(gameState'.playerHand)
                        = IdsOf(turnStart.playerHand) \cup {pool[Len(pool)].id}
                   /\ gameState'.board = gameState.board
                   /\ gameState'.board = turnStart.board
                   /\ gameState'.currentPlayerIndex = 1
              /\ (passed /\ ~drew) =>
                   /\ placed # {}
                   /\ gameState'.playerHand = gameState.playerHand
                   /\ gameState'.board = gameState.board
              /\ (placed # {} /\ ~passed) => gameState'.pool = pool]_vars

\* the human has placed a set in this turn and has not undone it, with
\* tiles left in the pool: a draw is asked for in vain
C22_Witness ==
    /\ gameState.currentPlayerIndex = 0 /\ gameState.winner = Null /\ ~isProcessingAI
    /\ BoardIds(gameState.board) \ BoardIds(turnStart.board) # {}
    /\ Len(gameState.pool) > 0
    /\ ~ENABLED handleDraw

\* C23: within a game, once winner is set no step changes the tiles of a
\* hand, the board, the pool, the player index or the winner, whichever
\* handler or timer takes the step.
C23_GameOverTerminal ==
    [][(gameId' = gameId /\ gameState.winner # Null)
       => /\ gameState'.winner = gameState.winner
          /\ gameState'.currentPlayerIndex = gameState.currentPlayerIndex
          /\ gameState'.board = gameState.board
          /\ gameState'.pool = gameState.pool
          /\ gameState'.aiHands = gameState.aiHands
          /\ IdsOf(gameState'.playerHand) = IdsOf(gameState.playerHand)]_vars

\* the human, holding hand in front of board with tp points placed in the
\* turn, can place tiles so that the turn can be ended (or the game is won):
\* once melded, any new set or any addition to a set; before, new sets that
\* bring the turn's points to 30
HumanCanPlay(hand, board, melded, tp) ==
    IF melded \/ tp >= MeldThreshold
    THEN \E S \in SUBSET IdsOf(hand) :
            LET sel == SelectSeq(hand, LAMBDA t : t.id \in S)
            IN  /\ S # {}
                /\ \/ Cardinality(S) >= 3 /\ isValidSet(sel)
                   \/ \E k \in 1..Len(board) : isValidSet(board[k] \o sel)
    ELSE tp + BestCombination(hand, 1..Len(hand)) >= MeldThreshold

\* C24: in every state with no winner in which the human is to move, some
\* sequence of human actions passes the turn: a draw, the end of the turn,
\* an undo followed by a draw, or tiles placed (from the present state or
\* from the one an undo restores) that let the turn be ended; so with the
\* pool empty and no tile placed the turn can be ended.
C24_HumanNeverStuck ==
    (gameState.winner = Null /\ gameState.currentPlayerIndex = 0)
    => \/ ENABLED handleDraw
       \/ ENABLED handleEndTurn
       \/ ENABLED handleUndo /\ gameState.pool # <<>>
       \/ HumanCanPlay(gameState.playerHand, gameState.board, gameState.hasMeld[0], turnPoints)
       \/ /\ ENABLED handleUndo
          /\ HumanCanPlay(turnStartState[1].playerHand, turnStartState[1].board,
                          turnStartState[1].hasMeld[0], 0)

(***************************************************************************)
(* Further properties of aiPlayTurn called on its own.                     *)
(***************************************************************************)
\* C14: at every point of aiPlayTurn, and when it has returned, the arrays
\* the caller passed hold what they held at the call: the hand the same
\* tiles in the same order, the board the same sets, each with the same
\* tiles in the same order.
C14_AiInputsUnmodified ==
    /\ call.st.callerHand = call.hand
    /\ call.st.callerBoard = call.board

\* the turn returned after it pushed a new set and extended an input set
\* through the working copies
C14_Witness ==
    /\ call.pc = "done"
    /\ call.result[1].madeMove
    /\ Len(call.result[1].newBoard) > Len(call.board)
    /\ \E i \in 1..Len(call.board) : call.result[1].newBoard[i] # call.board[i]
    /\ call.result[1].newHand # call.hand

(***************************************************************************)
(* Further properties of the rules engine called on its own.               *)
(***************************************************************************)
\* C15: for a valid set whose non-wild tiles all carry one number (a single
\* non-wild tile included), calculateSetPoints returns that number times the
\* size of the set, so that a wildcard counts as the number; and
\* {Red-7, Blue-7, Orange-7} scores 21.
C15_GroupPoints ==
    /\ calculateSetPoints(<<Tile(Red, 7, 0), Tile(Blue, 7, 0), Tile(Orange, 7, 0)>>) = 21
    /\ (/\ call.fn = "calculateSetPoints" /\ call.result # Null
        /\ isValidSet(call.set)
        /\ Cardinality(NumbersOf(call.set)) = 1)
       => \A n \in NumbersOf(call.set) : call.result[1] = n * Len(call.set)

\* a group of four tiles, one of them a wildcard, was scored
C15_Witness ==
    /\ call.fn = "calculateSetPoints"
    /\ call.result # Null
    /\ isValidSet(call.set)
    /\ Len(call.set) = 4
    /\ NumJokersIn(call.set) = 1
    /\ Cardinality(NumbersOf(call.set)) = 1

(***************************************************************************)
(* sortHand called on its own, and called again on its result.  The hands  *)
(* are the sequences of at most MaxSortHand different tiles of             *)
(* SortHandTiles, in every order.                                          *)
(***************************************************************************)
MaxSortHand == 4

SortHandTiles ==
    {Tile(Red, 5, 0), Tile(Red, 5, 1), Tile(Blue, 5, 0), Tile(Red, 3, 0),
     Tile(Black, 3, 0), Tile(Orange, 9, 0), JokerTile(1), JokerTile(2)}

SortHands ==
    {h \in UNION {[1..n -> SortHandTiles] : n \in 0..MaxSortHand} :
        \A i, j \in 1..Len(h) : i # j => h[i] # h[j]}

InitSort ==
    /\ AppIdle
    /\ \E hand \in SortHands, type \in {"number", "color"} :
          call = [fn |-> "sortHand", pc |-> "start", hand |-> hand, type |-> type,
                  once |-> <<>>, twice |-> <<>>]

SortOnce ==
    /\ call.fn = "sortHand" /\ call.pc = "start"
    /\ call' = [call EXCEPT !.pc = "once", !.once = sortHand(call.hand, call.type)]
    /\ UNCHANGED appVars

SortAgain ==
    /\ call.fn = "sortHand" /\ call.pc = "once"
    /\ call' = [call EXCEPT !.pc = "twice", !.twice = sortHand(call.once, call.type)]
    /\ UNCHANGED appVars

NextSort == SortOnce \/ SortAgain

SpecSort == InitSort /\ [][NextSort]_vars

\* C16: sortHand(h, k) is a permutation of h in which every wildcard comes
\* after every non-wild tile, and sortHand applied to it with the same key
\* returns it unchanged, for both keys.
C16_SortHandIdempotent ==
    /\ call.pc \in {"once", "twice"} =>
          /\ Len(call.once) = Len(call.hand)
          /\ \A i \in 1..Len(call.hand) : Occurrences(call.once, call.hand[i].id) = 1
          /\ \A i, j \in 1..Len(call.once) :
                (call.once[i].isJoker /\ ~call.once[j].isJoker) => j < i
    /\ call.pc = "twice" => call.twice = call.once

\* a hand with both wildcards in front and two tiles of one colour and
\* number was sorted twice, the first sort having changed its order
C16_Witness ==
    /\ call.pc = "twice"
    /\ Len(call.hand) = 4
    /\ call.hand[1].isJoker /\ call.hand[2].isJoker
    /\ call.hand[3].number = call.hand[4].number /\ call.hand[3].color = call.hand[4].color
    /\ call.once # call.hand

\* C18: what aiPlayTurn returns, for either value of hasMeld: with madeMove
\* false, newHand is the input hand and newBoard the input board; with
\* madeMove true, newHand has strictly fewer tiles than the input hand.
C18_MadeMoveIffTileLeft ==
    call.pc = "done" =>
        LET r == call.result[1]
        IN  /\ r.madeMove = FALSE => r.newHand = call.hand /\ r.newBoard = call.board
            /\ r.madeMove = TRUE => Len(r.newHand) < Len(call.hand)
            /\ r.madeMove \in BOOLEAN

\* a turn returned whose only moves were tiles appended to sets of the board
C18_Witness ==
    /\ call.pc = "done"
    /\ call.result[1].madeMove = TRUE
    /\ Len(call.result[1].newBoard) = Len(call.board)
    /\ Len(call.result[1].newHand) < Len(call.hand)

\* C19: when aiPlayTurn returns from a turn whose meld flag was true at the
\* board-extension pass (hasMeld true on entry, or 30 points reached in the
\* turn), no tile of newHand appended to a set of newBoard makes a valid set.
C19_NoExtensionRemains ==
    (call.pc = "done" /\ (call.hasMeld \/ call.st.points >= MeldThreshold)) =>
        LET r == call.result[1]
        IN  \A i \in 1..Len(r.newBoard) : \A j \in 1..Len(r.newHand) :
                ~isValidSet(Append(r.newBoard[i], r.newHand[j]))

\* a turn that reached 30 points with a new set, extended a set, and
\* returned with tiles left in the hand
C19_Witness ==
    /\ call.pc = "done" /\ ~call.hasMeld /\ call.st.points >= MeldThreshold
    /\ call.board # <<>>
    /\ call.result[1].newHand # <<>>
    /\ \E i \in 1..Len(call.result[1].newBoard) : Len(call.result[1].newBoard[i]) > 3

(***************************************************************************)
(* createDeck called on its own: the deck is built, then shuffled one      *)
(* iteration of the loop of shuffle at a time, Math.random following one   *)
(* of the streams of RandomStreams.                                        *)
(***************************************************************************)
InitDeck ==
    /\ AppIdle
    /\ \E stream \in RandomStreams :
          call = [fn |-> "createDeck", pc |-> "build", stream |-> stream,
                  deck |-> <<>>, i |-> 0, result |-> Null]

\* lines 4-21: the deck in the order it is built; then shuffle's
\* newArray = [...array] and i = newArray.length - 1
DeckBuild ==
    /\ call.fn = "createDeck" /\ call.pc = "build"
    /\ call' = [call EXCEPT !.pc = "shuffle", !.deck = createDeckOrdered,
                            !.i = Len(createDeckOrdered) - 1]
    /\ UNCHANGED appVars

\* one iteration of for (i = length - 1; i > 0; i--)
ShuffleStep ==
    /\ call.fn = "createDeck" /\ call.pc = "shuffle"
    /\ call.i > 0
    /\ call' = [call EXCEPT
                  !.deck = Swap(call.deck, call.i + 1,
                                RandomIndex(call.stream, Len(call.deck) - 1 - call.i, call.i) + 1),
                  !.i = call.i - 1]
    /\ UNCHANGED appVars

DeckReturn ==
    /\ call.fn = "createDeck" /\ call.pc = "shuffle"
    /\ call.i <= 0
    /\ call' = [call EXCEPT !.pc = "done", !.result = Some(call.deck)]
    /\ UNCHANGED appVars

NextDeck == DeckBuild \/ ShuffleStep \/ DeckReturn

SpecDeck == InitDeck /\ [][NextDeck]_vars

\* C17: the deck createDeck returns has exactly 106 tiles with 106
\* different ids: exactly 2 non-wild tiles of each of the 4 colours and 13
\* numbers and exactly 2 wildcards, whatever the shuffle did.
C17_DeckComposition ==
    call.pc = "done" =>
        LET deck == call.result[1]
        IN  /\ Len(deck) = 106
            /\ Cardinality(IdsOf(deck)) = 106
            /\ \A c \in {Red, Blue, Orange, Black} : \A n \in 1..13 :
                  Cardinality({k \in 1..Len(deck) :
                      ~deck[k].isJoker /\ deck[k].color = c /\ deck[k].number = n}) = 2
            /\ Cardinality({k \in 1..Len(deck) : deck[k].isJoker}) = 2
            /\ \A k \in 1..Len(deck) : deck[k].isJoker \/ deck[k].number \in 1..13

\* createDeck returned a deck the shuffle has re-ordered
C17_Witness ==
    /\ call.pc = "done"
    /\ call.result[1] # createDeckOrdered
    /\ call.result[1][1] # createDeckOrdered[1]
====
